---- MODULE Spec2Model ----
(***************************************************************************)
(* Model of sphinx_gallery/recommender.py: the class ExampleRecommender    *)
(* (token_freqs, dict_vectorizer, tfidf_transformer, cosine_similarity,    *)
(* fit, predict).                                                          *)
(*                                                                         *)
(* Conventions.                                                            *)
(*  - Document identifiers (file names) are the integers 1..MaxDocs; 0 is  *)
(*    an identifier that is in no corpus.                                  *)
(*  - Tokens are the integers 1..MaxTokens, numbered in the lexicographic  *)
(*    order of the token strings, so that sorted() is the order <.         *)
(*  - Python positions are 0-based; sequences here are 1-based.  Position  *)
(*    p of a Python list is element p+1 here.  Column (feature) indices    *)
(*    and row offsets of a CSR matrix keep their 0-based Python values.    *)
(*  - A similarity score is an exact rational [num, den] with den > 0.     *)
(*  - An attribute of the instance exists when its name is in attrs (the   *)
(*    instance __dict__); a local of fit is bound when its name is in      *)
(*    fit_locals.                                                          *)
(*                                                                         *)
(* Specifications.                                                         *)
(*  Spec          the instance from construction on: fit (in the steps     *)
(*                between which it reads or writes shared state) and       *)
(*                predict.                                                 *)
(*  SpecPredict   predict applied to an instance whose fitted attributes   *)
(*                are drawn from the index-consistent fitted states.       *)
(*  SpecPipeline  fit from line 220 on, entered with the list of           *)
(*                per-document frequency mappings.                         *)
(*  SpecVec       dict_vectorizer applied to drawn mappings.               *)
(*  SpecCos       cosine_similarity applied to drawn matrices.             *)
(***************************************************************************)
EXTENDS Integers, Sequences, FiniteSets, TLC

VARIABLES
    n_examples,          \* self.n_examples: [integral |-> BOOLEAN, val |-> Int]
    tokenizer,           \* self.tokenizer
    attrs,               \* fitted attributes present on the instance
    file_names_,         \* self.file_names_
    similarity_matrix_,  \* self.similarity_matrix_ (dense, rows of rationals)
    origin,              \* which fit call assigned each fitted attribute
    readable,            \* identifiers whose text Path(...).read_text() returns
    fit_pc,              \* position of the fit call in progress
    fit_arg,             \* fit's parameter file_names
    fit_locals,          \* names of fit's locals that are bound
    freqs,               \* the list passed to dict_vectorizer at line 220
    counts_matrix,       \* fit's local counts_matrix
    fit_outcome,         \* how the last fit call ended
    fit_calls,           \* number of fit calls made
    pre,                 \* fitted state when the fit call in progress began
    pred_arg,            \* predict's parameter file_name
    pred_outcome,        \* how the last predict call ended
    pred_result,         \* what the last predict call returned
    pred_pre,            \* fitted state when the last predict call began
    vec_data,            \* argument of a dict_vectorizer call
    vec_X,               \* its result
    vec_pc,
    cos_X,               \* argument of a cosine_similarity call
    cos_out,             \* its result
    cos_pc

vars == <<n_examples, tokenizer, attrs, file_names_, similarity_matrix_, origin,
          readable, fit_pc, fit_arg, fit_locals, freqs, counts_matrix,
          fit_outcome, fit_calls, pre, pred_arg, pred_outcome, pred_result,
          pred_pre, vec_data, vec_X, vec_pc, cos_X, cos_out, cos_pc>>

instanceVars == <<n_examples, tokenizer, attrs, file_names_, similarity_matrix_, origin>>
fitVars == <<fit_pc, fit_arg, fit_locals, freqs, counts_matrix, fit_outcome, fit_calls, pre>>
predVars == <<pred_arg, pred_outcome, pred_result, pred_pre>>
vecVars == <<vec_data, vec_X, vec_pc>>
cosVars == <<cos_X, cos_out, cos_pc>>

(***************************************************************************)
(* Bounds of the model.                                                    *)
(***************************************************************************)
MaxDocs == 3
MaxTokens == 2
MaxCount == 2
MaxExamples == 2
MaxScore == 1
MaxCalls == 2

DocIds == 1..MaxDocs
Identifiers == 0..MaxDocs
Tokens == 1..MaxTokens

Min(a, b) == IF a <= b THEN a ELSE b

Range(s) == {s[i] : i \in DOMAIN s}

SeqsUpTo(S, n) == UNION {[1..k -> S] : k \in 0..n}

\* Lists of pairwise distinct identifiers: a corpus names each document once.
FileNameLists == {s \in SeqsUpTo(DocIds, MaxDocs) :
                    \A i, j \in DOMAIN s : i # j => s[i] # s[j]}

RECURSIVE SumSeq(_)
SumSeq(s) == IF s = <<>> THEN 0 ELSE Head(s) + SumSeq(Tail(s))

RECURSIVE Concat(_)
Concat(ss) == IF ss = <<>> THEN <<>> ELSE Head(ss) \o Concat(Tail(ss))

(***************************************************************************)
(* Rationals.                                                              *)
(***************************************************************************)
Rat(n, d) == [num |-> n, den |-> d]
RatGT(a, b) == a.num * b.den > b.num * a.den
RatEQ(a, b) == a.num * b.den = b.num * a.den
RatOne(a) == a.num = a.den

(***************************************************************************)
(* Tokenizer (lines 56-68).  A text is a sequence of words; a word is a    *)
(* token together with whether it is written with capitals.                *)
(***************************************************************************)
\* The text that Path(fname).read_text() returns for a readable document.
DocText(fname) ==
    [i \in 1..fname |-> [tok |-> ((i + fname) % MaxTokens) + 1, upper |-> i = 1]]

\* Names bound at module level when token_freqs runs (lines 10-26, 29, 273).
ModuleGlobals ==
    {"numbers", "re", "defaultdict", "Path", "np", "sparse", "norm",
     "_thumbnail_div", "THUMBNAIL_PARENT_DIV", "THUMBNAIL_PARENT_DIV_CLOSE",
     "split_code_and_text_blocks", "extract_intro_and_title",
     "ExampleRecommender", "_write_recommendations"}

\* dict_freqs: occurrences of each token of a token sequence.
DictFreqs(doc) ==
    [t \in Range(doc) |-> Cardinality({i \in DOMAIN doc : doc[i] = t})]

\* token_freqs: line 59 builds the generator of lower-cased tokens, line 60
\* looks the bare name dict_freqs up in the module's globals and calls it.
TokenFreqs(doc) ==
    LET token_generator == [i \in DOMAIN doc |-> doc[i].tok]
    IN IF "dict_freqs" \in ModuleGlobals
       THEN [raised |-> "none", value |-> DictFreqs(token_generator)]
       ELSE [raised |-> "NameError", value |-> <<>>]

(***************************************************************************)
(* Sparse matrices in CSR form: data, indices, indptr and shape.           *)
(***************************************************************************)
Csr(data, indices, indptr, shape) ==
    [data |-> data, indices |-> indices, indptr |-> indptr, shape |-> shape]

\* Positions (1-based) in data/indices of the stored entries of row i.
RowSlots(X, i) == (X.indptr[i] + 1)..X.indptr[i + 1]

RECURSIVE SortedSeq(_)
SortedSeq(S) ==
    IF S = {} THEN <<>>
    ELSE LET m == CHOOSE x \in S : \A y \in S : x <= y
         IN <<m>> \o SortedSeq(S \ {m})

\* sparse.csr_matrix(dense): the nonzero entries of each row, by column.
CsrOf(dense, ncols) ==
    LET cols(i) == SortedSeq({j \in 1..ncols : dense[i][j] # 0})
        vals(i) == [k \in 1..Len(cols(i)) |-> dense[i][cols(i)[k]]]
        idx(i) == [k \in 1..Len(cols(i)) |-> cols(i)[k] - 1]
    IN Csr(Concat([i \in 1..Len(dense) |-> vals(i)]),
           Concat([i \in 1..Len(dense) |-> idx(i)]),
           [i \in 1..(Len(dense) + 1) |->
               SumSeq([k \in 1..(i - 1) |-> Len(cols(k))])],
           <<Len(dense), ncols>>)

(***************************************************************************)
(* dict_vectorizer (lines 70-107).                                         *)
(***************************************************************************)
Mappings == UNION {[S -> 1..MaxCount] : S \in SUBSET Tokens}

\* Lines 98-102: the entries one row contributes, in feature order.
RowEntries(row, feature_names) ==
    LET present == SortedSeq({j \in 1..Len(feature_names) :
                                feature_names[j] \in DOMAIN row})
    IN [data |-> [k \in 1..Len(present) |-> row[feature_names[present[k]]]],
        indices |-> [k \in 1..Len(present) |-> present[k] - 1]]

\* Lines 97-103: the loop over rows, from the accumulators acc.
RECURSIVE VecLoop(_, _, _)
VecLoop(rows, feature_names, acc) ==
    IF rows = <<>> THEN acc
    ELSE LET e == RowEntries(Head(rows), feature_names)
             indices == acc.indices \o e.indices
         IN VecLoop(Tail(rows), feature_names,
                    [data |-> acc.data \o e.data,
                     indices |-> indices,
                     indptr |-> Append(acc.indptr, Len(indices))])

\* Line 96 rebinds the name data to the new empty list of values, and the
\* loop of line 97 iterates over the list that data names then.
DictVectorizer(data) ==
    LET feature_names == SortedSeq(UNION {DOMAIN data[i] : i \in DOMAIN data})
        acc0 == [data |-> <<>>, indices |-> <<>>, indptr |-> <<0>>]
        rebound == acc0.data
        acc == VecLoop(rebound, feature_names, acc0)
    IN Csr(acc.data, acc.indices, acc.indptr,
           <<Len(acc.indptr) - 1, Len(feature_names)>>)

(***************************************************************************)
(* tfidf_transformer (lines 109-151).  Weights are fixed-point numbers in  *)
(* thousandths; NaN is the result of 0/0.                                  *)
(***************************************************************************)
NaN == 0 - 1

\* 1000 * ln(k), rounded.
LnMilli(k) ==
    CASE k = 1 -> 0 [] k = 2 -> 693 [] k = 3 -> 1099 [] k = 4 -> 1386
      [] k = 5 -> 1609 [] k = 6 -> 1792 [] k = 7 -> 1946 [] OTHER -> 2079

RECURSIVE ISqrtIn(_, _, _)
ISqrtIn(n, lo, hi) ==
    IF lo = hi THEN lo
    ELSE LET mid == (lo + hi + 1) \div 2
         IN IF mid * mid <= n THEN ISqrtIn(n, mid, hi) ELSE ISqrtIn(n, lo, mid - 1)

\* The integer square root (46340^2 is the largest square of a 32-bit integer).
ISqrt(n) == ISqrtIn(n, 0, Min(n, 46340))

TfidfTransformer(X) ==
    LET n_samples == X.shape[1]
        n_features == X.shape[2]
        \* lines 131-136: document frequency of feature j, smoothed
        df(j) == Cardinality({k \in DOMAIN X.indices : X.indices[k] = j}) + 1
        \* lines 137-138
        idf(j) == LnMilli(n_samples + 1) - LnMilli(df(j)) + 1000
        \* line 147: X * idf_diag
        w(k) == X.data[k] * idf(X.indices[k])
        width(i) == X.indptr[i + 1] - X.indptr[i]
        norm(i) == ISqrt(SumSeq([k \in 1..width(i) |->
                                    w(X.indptr[i] + k) * w(X.indptr[i] + k)]))
        \* lines 148-149: the dense quotient by the row norms, stored again
        \* as CSR; a row of norm 0 is 0/0 in every column
        vals(i) == IF norm(i) = 0
                   THEN [c \in 1..n_features |-> NaN]
                   ELSE [k \in 1..width(i) |->
                            (w(X.indptr[i] + k) * 1000) \div norm(i)]
        idx(i) == IF norm(i) = 0
                  THEN [c \in 1..n_features |-> c - 1]
                  ELSE [k \in 1..width(i) |-> X.indices[X.indptr[i] + k]]
    IN Csr(Concat([i \in 1..n_samples |-> vals(i)]),
           Concat([i \in 1..n_samples |-> idx(i)]),
           [i \in 1..(n_samples + 1) |->
               SumSeq([k \in 1..(i - 1) |-> Len(vals(k))])],
           <<n_samples, n_features>>)

(***************************************************************************)
(* cosine_similarity (lines 153-191), called as fit calls it: Y = None,    *)
(* dense_output = True.  Entry (i, j) of X_normalized @ X_normalized.T is  *)
(* (x_i . x_j) / norm(X)^2, kept as an exact rational.                     *)
(***************************************************************************)
\* Entry (i, c) of X: the stored value, or 0.
At(X, i, c) ==
    LET S == {p \in RowSlots(X, i) : X.indices[p] = c}
    IN IF S = {} THEN 0 ELSE X.data[CHOOSE p \in S : TRUE]

\* x_i . x_j
Dot(X, i, j) ==
    SumSeq([c \in 1..X.shape[2] |-> At(X, i, c - 1) * At(X, j, c - 1)])

\* line 180: norm(X) is the Frobenius norm of the matrix; its square.
NormSquared(X) == SumSeq([k \in DOMAIN X.data |-> X.data[k] * X.data[k]])

CosineSimilarity(X) ==
    LET n == X.shape[1]
        nan == \E k \in DOMAIN X.data : X.data[k] = NaN
        shared(i, j) == \E p \in RowSlots(X, i), q \in RowSlots(X, j) :
                            X.indices[p] = X.indices[q]
        entry(i, j) ==
            IF ~shared(i, j) THEN Rat(0, 1)
            ELSE IF nan \/ NormSquared(X) = 0 THEN Rat(0, 0)
            ELSE Rat(Dot(X, i, j), NormSquared(X))
    IN [i \in 1..n |-> [j \in 1..n |-> entry(i, j)]]

(***************************************************************************)
(* predict (lines 250-270).                                                *)
(***************************************************************************)
\* list.index: the first position of x (1-based); 0 when x is not in list.
IndexOf(list, x) ==
    IF x \in Range(list)
    THEN CHOOSE i \in DOMAIN list :
            list[i] = x /\ \A j \in DOMAIN list : list[j] = x => i <= j
    ELSE 0

\* line 264: list(enumerate(row))
SimilarItems(row) == [i \in DOMAIN row |-> [index |-> i, score |-> row[i]]]

\* A sort that is not stable: an item goes before the items of equal score.
RECURSIVE InsertBeforeEqual(_, _)
InsertBeforeEqual(s, x) ==
    IF s = <<>> THEN <<x>>
    ELSE IF ~RatGT(Head(s).score, x.score) THEN <<x>> \o s
    ELSE <<Head(s)>> \o InsertBeforeEqual(Tail(s), x)

RECURSIVE SortFromUnstable(_, _)
SortFromUnstable(done, todo) ==
    IF todo = <<>> THEN done
    ELSE SortFromUnstable(InsertBeforeEqual(done, Head(todo)), Tail(todo))

SortedItemsUnstable(similar_items) == SortFromUnstable(<<>>, similar_items)

\* Where a stable descending sort puts item x among the sorted items s:
\* after every item whose score is not smaller.
RECURSIVE InsertStable(_, _)
InsertStable(s, x) ==
    IF s = <<>> THEN <<x>>
    ELSE IF RatGT(x.score, Head(s).score) THEN <<x>> \o s
    ELSE <<Head(s)>> \o InsertStable(Tail(s), x)

RECURSIVE SortFrom(_, _)
SortFrom(done, todo) ==
    IF todo = <<>> THEN done
    ELSE SortFrom(InsertStable(done, Head(todo)), Tail(todo))

\* line 265: sorted(similar_items, key=score, reverse=True); the sort is
\* stable, and reverse=True keeps equal keys in their original order.
SortedItems(similar_items) == SortFrom(<<>>, similar_items)

\* The slice taken one position early: sorted_items[0 : n]
TopKFromZero(sorted_items, n) == SubSeq(sorted_items, 1, Min(n, Len(sorted_items)))

\* line 268: sorted_items[1 : n + 1]
TopK(sorted_items, n) ==
    LET len == Len(sorted_items)
        stop == IF n + 1 < 0
                THEN (IF len + n + 1 < 0 THEN 0 ELSE len + n + 1)
                ELSE Min(n + 1, len)
    IN SubSeq(sorted_items, 2, stop)

Raised(kind) == [outcome |-> kind, value |-> <<>>]

\* An unfitted instance answering as if its identifier list were empty.
UnfittedAsNotFound == Raised("ValueError")

\* line 263: self.file_names_ on an instance that has no such attribute
UnfittedError == Raised("AttributeError")

\* line 263: list.index(file_name) when file_name is not in the list
NotFoundError == Raised("ValueError")

PredictResult(file_name) ==
    IF "file_names_" \notin attrs THEN UnfittedError
    ELSE IF IndexOf(file_names_, file_name) = 0 THEN NotFoundError
    ELSE IF "similarity_matrix_" \notin attrs THEN Raised("AttributeError")
    ELSE LET item_id == IndexOf(file_names_, file_name)
         IN IF item_id > Len(similarity_matrix_) THEN Raised("IndexError")
            ELSE IF ~n_examples.integral THEN Raised("TypeError")
            ELSE LET sorted_items ==
                         SortedItems(SimilarItems(similarity_matrix_[item_id]))
                     top_k_items == TopK(sorted_items, n_examples.val)
                 IN IF \E k \in DOMAIN top_k_items :
                          top_k_items[k].index > Len(file_names_)
                    THEN Raised("IndexError")
                    ELSE [outcome |-> "ok",
                          value |-> [k \in DOMAIN top_k_items |->
                                        file_names_[top_k_items[k].index]]]

Snapshot ==
    [attrs |-> attrs, file_names_ |-> file_names_,
     similarity_matrix_ |-> similarity_matrix_, origin |-> origin]

Predict(file_name) ==
    /\ pred_arg' = file_name
    /\ pred_outcome' = PredictResult(file_name).outcome
    /\ pred_result' = PredictResult(file_name).value
    /\ pred_pre' = Snapshot
    /\ UNCHANGED <<instanceVars, readable, fitVars, vecVars, cosVars>>

(***************************************************************************)
(* fit (lines 193-247).                                                    *)
(***************************************************************************)
NoMatrix == Csr(<<>>, <<>>, <<0>>, <<0, 0>>)

FitRaise(kind) ==
    /\ fit_pc' = "idle"
    /\ fit_outcome' = kind

\* The caller invokes fit(file_names).
FitCall(file_names) ==
    /\ fit_pc = "idle"
    /\ fit_calls < MaxCalls
    /\ fit_pc' = "validate"
    /\ fit_arg' = file_names
    /\ fit_locals' = {}
    /\ freqs' = <<>>
    /\ counts_matrix' = NoMatrix
    /\ fit_outcome' = "running"
    /\ fit_calls' = fit_calls + 1
    /\ pre' = Snapshot
    /\ UNCHANGED <<instanceVars, readable, predVars, vecVars, cosVars>>

\* Lines 206-216: the configuration is validated.
FitValidate ==
    /\ fit_pc = "validate"
    /\ IF tokenizer \notin {"raw", "backrefs"} THEN FitRaise("ValueError")
       ELSE IF ~n_examples.integral THEN FitRaise("ValueError")
       ELSE IF n_examples.val < 1 THEN FitRaise("ValueError")
       ELSE fit_pc' = "tokenize" /\ UNCHANGED fit_outcome
    /\ UNCHANGED <<instanceVars, readable, fit_arg, fit_locals, freqs,
                   counts_matrix, fit_calls, pre, predVars, vecVars, cosVars>>

\* Line 221: [frequency_func(Path(fname).read_text()) for fname in file_names]
RECURSIVE TokenizeAll(_, _)
TokenizeAll(file_names, done) ==
    IF file_names = <<>> THEN [raised |-> "none", value |-> done]
    ELSE IF Head(file_names) \notin readable
         THEN [raised |-> "OSError", value |-> <<>>]
         ELSE LET r == TokenFreqs(DocText(Head(file_names)))
              IN IF r.raised # "none" THEN r
                 ELSE TokenizeAll(Tail(file_names), Append(done, r.value))

\* fit publishing the identifier list before the documents are tokenized.
FitTokenizePublishingNames ==
    /\ fit_pc = "tokenize"
    /\ file_names_' = fit_arg
    /\ attrs' = attrs \cup {"file_names_"}
    /\ origin' = [origin EXCEPT !.file_names_ = fit_calls]
    /\ IF tokenizer = "raw"
       THEN LET r == TokenizeAll(fit_arg, <<>>)
            IN IF r.raised # "none"
               THEN FitRaise(r.raised) /\ UNCHANGED <<fit_locals, freqs>>
               ELSE /\ fit_pc' = "vectorize"
                    /\ fit_locals' = {"frequency_func"}
                    /\ freqs' = r.value
                    /\ UNCHANGED fit_outcome
       ELSE /\ fit_pc' = "transform"
            /\ fit_locals' = {"frequency_func"}
            /\ UNCHANGED <<freqs, fit_outcome>>
    /\ UNCHANGED <<n_examples, tokenizer, similarity_matrix_, readable,
                   fit_arg, counts_matrix, fit_calls, pre, predVars, vecVars,
                   cosVars>>

\* Lines 218-224: the tokenizer's branch, up to the argument of
\* dict_vectorizer; the backrefs branch binds frequency_func only.
FitTokenize ==
    /\ fit_pc = "tokenize"
    /\ IF tokenizer = "raw"
       THEN LET r == TokenizeAll(fit_arg, <<>>)
            IN IF r.raised # "none"
               THEN FitRaise(r.raised) /\ UNCHANGED <<fit_locals, freqs>>
               ELSE /\ fit_pc' = "vectorize"
                    /\ fit_locals' = {"frequency_func"}
                    /\ freqs' = r.value
                    /\ UNCHANGED fit_outcome
       ELSE /\ fit_pc' = "transform"
            /\ fit_locals' = {"frequency_func"}
            /\ UNCHANGED <<freqs, fit_outcome>>
    /\ UNCHANGED <<instanceVars, readable, fit_arg, counts_matrix, fit_calls,
                   pre, predVars, vecVars, cosVars>>

\* Line 220: counts_matrix = self.dict_vectorizer([...])
FitVectorize ==
    /\ fit_pc = "vectorize"
    /\ counts_matrix' = DictVectorizer(freqs)
    /\ fit_locals' = fit_locals \cup {"counts_matrix"}
    /\ fit_pc' = "transform"
    /\ UNCHANGED <<instanceVars, readable, fit_arg, freqs, fit_outcome,
                   fit_calls, pre, predVars, vecVars, cosVars>>

\* Line 242: tfidf_matrix = self.tfidf_transformer(counts_matrix)
FitTransform ==
    /\ fit_pc = "transform"
    /\ IF "counts_matrix" \notin fit_locals
       THEN FitRaise("UnboundLocalError") /\ UNCHANGED fit_locals
       ELSE /\ fit_pc' = "similarity"
            /\ fit_locals' = fit_locals \cup {"tfidf_matrix"}
            /\ UNCHANGED fit_outcome
    /\ UNCHANGED <<instanceVars, readable, fit_arg, freqs, counts_matrix,
                   fit_calls, pre, predVars, vecVars, cosVars>>

\* Lines 243-245: self.similarity_matrix_ = self.cosine_similarity(...)
\* The numpy and scipy calls are taken to return the empty results on
\* matrices without rows (a division by a zero norm is a warning, not an
\* exception), so the call raises nothing here.
FitSimilarity ==
    /\ fit_pc = "similarity"
    /\ similarity_matrix_' = CosineSimilarity(TfidfTransformer(counts_matrix))
    /\ attrs' = attrs \cup {"similarity_matrix_"}
    /\ origin' = [origin EXCEPT !.similarity_matrix_ = fit_calls]
    /\ fit_pc' = "names"
    /\ UNCHANGED <<n_examples, tokenizer, file_names_, readable, fit_arg,
                   fit_locals, freqs, counts_matrix, fit_outcome, fit_calls,
                   pre, predVars, vecVars, cosVars>>

\* Lines 246-247: self.file_names_ = file_names; return self
FitAssignNames ==
    /\ fit_pc = "names"
    /\ file_names_' = fit_arg
    /\ attrs' = attrs \cup {"file_names_"}
    /\ origin' = [origin EXCEPT !.file_names_ = fit_calls]
    /\ fit_pc' = "idle"
    /\ fit_outcome' = "ok"
    /\ UNCHANGED <<n_examples, tokenizer, similarity_matrix_, readable,
                   fit_arg, fit_locals, freqs, counts_matrix, fit_calls, pre,
                   predVars, vecVars, cosVars>>

(***************************************************************************)
(* Spec: the instance from its construction (lines 52-54).                 *)
(***************************************************************************)
NExamplesValues ==
    {[integral |-> TRUE, val |-> v] : v \in (0 - 1)..MaxExamples}
        \cup {[integral |-> FALSE, val |-> 2]}

TokenizerValues == {"raw", "backrefs", "unknown"}

Unfitted ==
    /\ attrs = {}
    /\ file_names_ = <<>>
    /\ similarity_matrix_ = <<>>
    /\ origin = [file_names_ |-> 0, similarity_matrix_ |-> 0]

NoFit ==
    /\ fit_pc = "idle"
    /\ fit_arg = <<>>
    /\ fit_locals = {}
    /\ freqs = <<>>
    /\ counts_matrix = NoMatrix
    /\ fit_outcome = "none"
    /\ fit_calls = 0
    /\ pre = Snapshot

NoPredict ==
    /\ pred_arg = 0
    /\ pred_outcome = "none"
    /\ pred_result = <<>>
    /\ pred_pre = Snapshot

NoVec == vec_data = <<>> /\ vec_X = NoMatrix /\ vec_pc = "off"

NoCos == cos_X = NoMatrix /\ cos_out = <<>> /\ cos_pc = "off"

Init ==
    /\ n_examples \in NExamplesValues
    /\ tokenizer \in TokenizerValues
    /\ readable \in {DocIds} \cup {DocIds \ {d} : d \in DocIds}
    /\ Unfitted
    /\ NoFit
    /\ NoPredict
    /\ NoVec
    /\ NoCos

Next ==
    \/ \E file_names \in FileNameLists : FitCall(file_names)
    \/ FitValidate
    \/ FitTokenize
    \/ FitVectorize
    \/ FitTransform
    \/ FitSimilarity
    \/ FitAssignNames
    \/ \E file_name \in Identifiers : Predict(file_name)

Spec == Init /\ [][Next]_vars

(***************************************************************************)
(* SpecPredict: predict on an instance that is unfitted, or fitted with an *)
(* identifier list and a similarity matrix that correspond index by index: *)
(* the matrix is square of the list's size, symmetric, with 1 on the       *)
(* diagonal and every score in [0, 1].                                     *)
(***************************************************************************)
Pairs(n) == {p \in (1..n) \X (1..n) : p[1] < p[2]}

SimilarityMatrices(n) ==
    {[i \in 1..n |-> [j \in 1..n |->
        IF i = j THEN Rat(MaxScore, MaxScore)
        ELSE IF i < j THEN Rat(u[<<i, j>>], MaxScore)
        ELSE Rat(u[<<j, i>>], MaxScore)]] : u \in [Pairs(n) -> 0..MaxScore]}

InitPredict ==
    /\ n_examples \in {[integral |-> TRUE, val |-> v] : v \in 1..MaxExamples}
    /\ tokenizer = "raw"
    /\ readable = DocIds
    /\ \/ Unfitted
       \/ /\ attrs = {"file_names_", "similarity_matrix_"}
          /\ file_names_ \in FileNameLists
          /\ similarity_matrix_ \in SimilarityMatrices(Len(file_names_))
          /\ origin = [file_names_ |-> 0, similarity_matrix_ |-> 0]
    /\ NoFit
    /\ NoPredict
    /\ NoVec
    /\ NoCos

NextPredict == \E file_name \in Identifiers : Predict(file_name)

SpecPredict == InitPredict /\ [][NextPredict]_vars

(***************************************************************************)
(* SpecPipeline: fit from line 220 on.  The configuration has passed the   *)
(* validation and the list comprehension of line 221 has produced one      *)
(* frequency mapping per document.                                         *)
(***************************************************************************)
InitPipeline ==
    /\ n_examples \in {[integral |-> TRUE, val |-> v] : v \in 1..MaxExamples}
    /\ tokenizer = "raw"
    /\ readable = DocIds
    /\ Unfitted
    /\ fit_pc = "vectorize"
    /\ fit_arg \in FileNameLists
    /\ fit_locals = {"frequency_func"}
    /\ freqs \in [1..Len(fit_arg) -> Mappings]
    /\ counts_matrix = NoMatrix
    /\ fit_outcome = "running"
    /\ fit_calls = 1
    /\ pre = Snapshot
    /\ NoPredict
    /\ NoVec
    /\ NoCos

NextPipeline ==
    \/ FitVectorize
    \/ FitTransform
    \/ FitSimilarity
    \/ FitAssignNames
    \/ \E file_name \in Identifiers : Predict(file_name)

SpecPipeline == InitPipeline /\ [][NextPipeline]_vars

(***************************************************************************)
(* SpecVec: dict_vectorizer applied to a list of frequency mappings.       *)
(***************************************************************************)
VecCall ==
    /\ vec_pc = "call"
    /\ vec_X' = DictVectorizer(vec_data)
    /\ vec_pc' = "returned"
    /\ UNCHANGED <<instanceVars, readable, fitVars, predVars, vec_data, cosVars>>

InitVec ==
    /\ n_examples = [integral |-> TRUE, val |-> 1]
    /\ tokenizer = "raw"
    /\ readable = DocIds
    /\ Unfitted
    /\ NoFit
    /\ NoPredict
    /\ vec_data \in SeqsUpTo(Mappings, MaxDocs)
    /\ vec_X = NoMatrix
    /\ vec_pc = "call"
    /\ NoCos

SpecVec == InitVec /\ [][VecCall]_vars

(***************************************************************************)
(* SpecCos: cosine_similarity applied to a sparse matrix of two or more    *)
(* rows with small nonnegative integer entries.                            *)
(***************************************************************************)
CosCall ==
    /\ cos_pc = "call"
    /\ cos_out' = CosineSimilarity(cos_X)
    /\ cos_pc' = "returned"
    /\ UNCHANGED <<instanceVars, readable, fitVars, predVars, vecVars, cos_X>>

DenseMatrices ==
    UNION {[1..n -> [1..MaxTokens -> 0..MaxCount]] : n \in 2..MaxDocs}

InitCos ==
    /\ n_examples = [integral |-> TRUE, val |-> 1]
    /\ tokenizer = "raw"
    /\ readable = DocIds
    /\ Unfitted
    /\ NoFit
    /\ NoPredict
    /\ NoVec
    /\ cos_X \in {CsrOf(d, MaxTokens) : d \in DenseMatrices}
    /\ cos_out = <<>>
    /\ cos_pc = "call"

SpecCos == InitCos /\ [][CosCall]_vars

(***************************************************************************)
(* Properties.                                                             *)
(***************************************************************************)
ValidConfiguration ==
    tokenizer = "raw" /\ n_examples.integral /\ n_examples.val >= 1

Fitted == attrs = {"file_names_", "similarity_matrix_"}

\* C1: a fit call on a non-empty corpus of readable documents, with
\* tokenizer "raw" and n_examples >= 1, ends without raising, in the fitted
\* state whose file_names_ is the given sequence and whose
\* similarity_matrix_ is set.
FitCompletes ==
    (/\ fit_pc = "idle"
     /\ fit_outcome # "none"
     /\ ValidConfiguration
     /\ fit_arg # <<>>
     /\ Range(fit_arg) \subseteq readable)
    => (/\ fit_outcome = "ok"
        /\ Fitted
        /\ file_names_ = fit_arg)

\* C2: the result of predict(d) for a fitted document d never contains d.
NoSelfRecommendation ==
    pred_outcome = "ok" => pred_arg \notin Range(pred_result)

\* The score, in the row of the query, of the k-th returned document, and
\* that document's position in the fitted identifier list.
ResultPosition(k) == IndexOf(file_names_, pred_result[k])
ResultScore(k) ==
    similarity_matrix_[IndexOf(file_names_, pred_arg)][ResultPosition(k)]

\* C3: the list predict(d) returns is ordered by score to d descending, and
\* returned documents of equal score are in ascending order of position in
\* the fitted identifier list.
RankingOrder ==
    pred_outcome = "ok" =>
        \A k, l \in DOMAIN pred_result :
            k < l =>
                /\ ~RatGT(ResultScore(l), ResultScore(k))
                /\ RatEQ(ResultScore(k), ResultScore(l))
                       => ResultPosition(k) < ResultPosition(l)

\* C3 witness: predict returned two documents of equal score, both scoring
\* less than the query itself, the query standing between them in the list.
RankingWitness ==
    /\ pred_outcome = "ok"
    /\ Len(pred_result) >= 2
    /\ RatEQ(ResultScore(1), ResultScore(2))
    /\ ~RatOne(ResultScore(1))
    /\ ResultPosition(1) < IndexOf(file_names_, pred_arg)
    /\ IndexOf(file_names_, pred_arg) < ResultPosition(2)

\* C4: for a fitted document d, predict(d) returns a list of
\* min(n_examples, n_documents - 1) identifiers.
BoundedResultSize ==
    (Fitted /\ pred_outcome # "none" /\ pred_arg \in Range(file_names_))
    => (/\ pred_outcome = "ok"
        /\ Len(pred_result) = Min(n_examples.val, Len(file_names_) - 1))

\* C4 witness: predict returned fewer than n_examples identifiers because
\* the corpus has no more documents.
BoundedSizeWitness ==
    /\ pred_outcome = "ok"
    /\ Len(file_names_) >= 2
    /\ Len(file_names_) - 1 < n_examples.val
    /\ Len(pred_result) = Len(file_names_) - 1

\* C5: when a fit call has raised, file_names_ and similarity_matrix_ are
\* what they were when the call began (absent if they were absent), and a
\* call that the validation rejected has computed nothing.
FitAllOrNothing ==
    (fit_pc = "idle" /\ fit_outcome \notin {"none", "ok"})
    => (/\ Snapshot = pre
        /\ fit_outcome = "ValueError" => fit_locals = {})

\* C5 witness: a fit call raised on an instance that an earlier call had
\* fitted.
FitFailedAfterFitWitness ==
    /\ fit_pc = "idle"
    /\ fit_outcome \notin {"none", "ok"}
    /\ pre.attrs = {"file_names_", "similarity_matrix_"}

AtomicPublication ==
    "file_names_" \in attrs => origin.file_names_ = origin.similarity_matrix_

\* The keys of mapping i as (count, feature index) pairs, by feature index.
ExpectedRow(data, i) ==
    LET vocabulary == SortedSeq(UNION {DOMAIN data[r] : r \in DOMAIN data})
        present == SortedSeq({j \in 1..Len(vocabulary) :
                                vocabulary[j] \in DOMAIN data[i]})
    IN [k \in 1..Len(present) |-> <<data[i][vocabulary[present[k]]], present[k] - 1>>]

\* C9: for n mappings dict_vectorizer returns a matrix of shape
\* (n, |vocabulary|) whose row offsets are n+1 numbers, starting at 0,
\* non-decreasing and ending at the number of stored entries, whose row i
\* holds the (count, feature index) pairs of the keys of mapping i in
\* ascending feature order, and an empty mapping gives an empty row.
VectorizerStructure ==
    vec_pc = "returned" =>
        LET n == Len(vec_data)
            vocabulary == UNION {DOMAIN vec_data[r] : r \in DOMAIN vec_data}
        IN /\ vec_X.shape = <<n, Cardinality(vocabulary)>>
           /\ Len(vec_X.indptr) = n + 1
           /\ vec_X.indptr[1] = 0
           /\ vec_X.indptr[n + 1] = Len(vec_X.data)
           /\ Len(vec_X.indices) = Len(vec_X.data)
           /\ \A i \in 1..n :
                 /\ vec_X.indptr[i] <= vec_X.indptr[i + 1]
                 /\ [k \in 1..(vec_X.indptr[i + 1] - vec_X.indptr[i]) |->
                        <<vec_X.data[vec_X.indptr[i] + k],
                          vec_X.indices[vec_X.indptr[i] + k]>>]
                    = ExpectedRow(vec_data, i)
                 /\ DOMAIN vec_data[i] = {} => vec_X.indptr[i] = vec_X.indptr[i + 1]

\* C10: in the self-similarity of a matrix of two or more rows, the
\* diagonal entry of every nonzero row is 1.
UnitDiagonal ==
    cos_pc = "returned" =>
        \A i \in 1..cos_X.shape[1] :
            Dot(cos_X, i, i) # 0 => RatOne(cos_out[i][i])

====
